---------------------------- MODULE Spec2Model ----------------------------
(***************************************************************************)
(* Model of src/app.py: the ILN "multi-language" demonstration service.    *)
(*                                                                         *)
(* One process holds one ILNEssenceEngine (iln_engine, app.py:269) with    *)
(* its capability flags and its performance_metrics counters.  The HTTP    *)
(* handlers contain no await, so on the single-threaded event loop each    *)
(* runs to completion as one step; the monitoring WebSocket handler        *)
(* awaits between its steps and interleaves with them.                     *)
(*                                                                         *)
(* Conventions.                                                            *)
(*  - A str is a sequence of one-character strings.  The character         *)
(*    Surrogate stands for a lone surrogate code point (JSON "\ud800"),    *)
(*    which str.encode() refuses with UnicodeEncodeError.                  *)
(*  - time.time() differences are whole clock ticks, 0..MaxElapsed; two    *)
(*    reads of the clock may return the same value.                        *)
(*  - average_response_time is an exact rational [num, den]; float         *)
(*    rounding is not modelled.                                            *)
(*  - A call into a native library (never built in the repository) either  *)
(*    returns or raises: each call's outcome is chosen freely.             *)
(*  - An engine call is a record [raised, exc, value]: raised = TRUE is a  *)
(*    Python exception leaving the method.                                 *)
(*  - psutil readings (memory, cpu, threads, open files) and the event_id  *)
(*    and per-engine timing fields are environment values no handler       *)
(*    branches on; they are left out of the records.                       *)
(***************************************************************************)
EXTENDS Integers, Sequences, FiniteSets, TLC

VARIABLES
    capabilities,         \* iln_engine.detector.capabilities: rust, go
    bindings,             \* whether the ctypes signatures were configured
    performance_metrics,  \* requests_processed, average_response_time
    recorded,             \* sum of the total_time values computed (history)
    request,              \* the HTTP request handled last (history)
    response,             \* its response
    invoked,              \* the engine methods it invoked, in order (history)
    pre,                  \* performance_metrics when its handler was entered
    call,                 \* the engine method called directly last (history)
    memo,                 \* an earlier fallback result of own_secure (history)
    ws_pc,                \* position of the websocket_monitoring handler
    ws_connected,         \* whether the monitoring client is still connected
    ws_msg                \* the last snapshot delivered to the client

vars == <<capabilities, bindings, performance_metrics, recorded, request,
          response, invoked, pre, call, memo, ws_pc, ws_connected, ws_msg>>

-----------------------------------------------------------------------------
(* Bounds of the model *)

MaxWorkers == 3
MaxElapsed == 1
MaxRequests == 2

(* Program constants *)

MaxIterations == 100
SampleSize == 5
PrefixLen == 10
HashLen == 16
MinimalWorkers == 2
StressWorkers == 4
EchoLen == 100

-----------------------------------------------------------------------------
(* Strings *)

Surrogate == "\\ud800"

StrEmpty == << >>
StrIln == <<"i", "l", "n">>
StrDigits == <<"0", "1", "2", "3", "4", "5", "6", "7", "8", "9", "a", "b">>
StrBad == <<Surrogate>>

DataSet == {StrEmpty, StrIln, StrDigits, StrBad}

Min(a, b) == IF a <= b THEN a ELSE b

\* s[:n] for n >= 0
Prefix(s, n) == SubSeq(s, 1, Min(n, Len(s)))

\* The characters of the strings of the model
Chars ==
    {"i", "l", "n", "a", "b", "S", "t", "r", "e", "s", "d", " ", "_", ".",
     "0", "1", "2", "3", "4", "5", "6", "7", "8", "9", Surrogate}

\* str.encode(): UTF-8 has no encoding for a lone surrogate
Encodable(s) == s \in Seq(Chars \ {Surrogate})

\* test_data = "Stress test data " * 50, and f"{test_data}_{i}"
StressWord == <<"S", "t", "r", "e", "s", "s", " ", "t", "e", "s", "t", " ",
                "d", "a", "t", "a", " ">>
StressRepeat == 50
TestData ==
    [k \in 1..(Len(StressWord) * StressRepeat) |->
        StressWord[((k - 1) % Len(StressWord)) + 1]]

Digits == <<"0", "1", "2", "3", "4", "5", "6", "7", "8", "9">>

\* str(i) for i >= 0
RECURSIVE DecStr(_)
DecStr(i) ==
    IF i < 10 THEN <<Digits[i + 1]>>
    ELSE Append(DecStr(i \div 10), Digits[(i % 10) + 1])

DigitVal(c) == (CHOOSE d \in 1..10 : Digits[d] = c) - 1

RECURSIVE DecVal(_)
DecVal(s) ==
    IF Len(s) = 0 THEN 0
    ELSE 10 * DecVal(SubSeq(s, 1, Len(s) - 1)) + DigitVal(s[Len(s)])

StressItem(i) == TestData \o <<"_">> \o DecStr(i)

\* The real SHA-256 digests of StressItem(0) .. StressItem(101)
StressDigests == <<
    <<"1b5dcdee10c0d45e", "a3a68fa8c73e881e",
      "6580bcf05d7b3b3d", "4c975f92e69a3200">>,
    <<"a682a317729ac64f", "012e9ad79ead6b57",
      "bbd59cdfbd89b0b4", "56e2779165169fc9">>,
    <<"c7cc04740f50c936", "7a56bb0223e3ac42",
      "95ca0256b75b4984", "6ce3498b7517d978">>,
    <<"ec952edcee521fa0", "17fd4ea7db1c4f97",
      "e6737b351e535558", "7197048b87fdcac9">>,
    <<"7f9dd9bcd0fd9c05", "a209a93510cf2520",
      "0768c90fa3b8de8c", "9c9f4b3275a3754d">>,
    <<"5d39e290129b50cc", "55251f0929b514da",
      "ae2304d43f251136", "a0c111b51eea5824">>,
    <<"861cefe2782bc6b4", "67a633f0a717bf22",
      "0d04ffb3b8d2c588", "3271b8947ed816ae">>,
    <<"61118b3ca5512240", "4e7d68ba04e637ef",
      "8a33ce0aff1cce3c", "d56002c17c5891d3">>,
    <<"95f27e839de8d914", "ca7ee072fdb755b4",
      "8371531134e7a20b", "80e659920d51b1b1">>,
    <<"9c7bdb2ed011a5ae", "94be670f7ec602dc",
      "9d1861ab5d6d92f8", "7e999fec9482316f">>,
    <<"5ef43654ef53071b", "05582db2beb98214",
      "f2bc94690f87265b", "62270d371f471aa7">>,
    <<"25403a369b54d9a5", "724cf57148135b17",
      "7507708633c23c4e", "87ab5266452fed43">>,
    <<"eb7df9ef5eaf3cc8", "b8a303012bb12a9c",
      "37fe0abb959c7ec9", "14952ca543292f21">>,
    <<"8026161a952e8369", "83fc550fc8b19ac1",
      "ccd0532f39a1297b", "e6c95d683d2b3544">>,
    <<"6a8bdc6ee9c845f2", "3860198518cc55ec",
      "affd85a0e1065ea1", "7089d003ef682a26">>,
    <<"154dbe1c49a82f48", "7fc38ba083fbf1e6",
      "98644f8976e5f440", "b0aff86b360be20f">>,
    <<"934c8b34b8e288ea", "c3843188907d0167",
      "df1ff132c847e1c4", "b5c854d13519c310">>,
    <<"39f2c61d345c06c4", "2c85763acc93db9c",
      "aa7235fb82ea3439", "79b845dcddb56abc">>,
    <<"5db3222a55fce618", "442f9e51b5a34888",
      "bbd452388b04dd24", "a0e29a01acbd4951">>,
    <<"c690007bf28ffd64", "cab7165d5c1633a4",
      "50b11231ba9ca239", "a1561085795a4bb1">>,
    <<"118276012c73f729", "e097466ab8cb68da",
      "e3fb287483616588", "e5a5bc50ff7334ab">>,
    <<"ec4b19d40ac4c49b", "e0e48812a983cc44",
      "f875a02fba45db60", "b976e9e127069452">>,
    <<"c6600d504ff77a53", "aed8018502c2906a",
      "d5b7fb0e023b0787", "c8c06be80fadc459">>,
    <<"09ed0219e29f3e1d", "c150c4c4b38d3801",
      "6289ca8d64353982", "45f811fb6c2a8626">>,
    <<"b98f09b5ff013fce", "0877004403093450",
      "432a27e9d656efed", "de893716671c8669">>,
    <<"bed30889213394e8", "c454cd0ea8f4d461",
      "d204e7f840396559", "3cc541ef095dd483">>,
    <<"9c7966a613176645", "a96d97e3667cf648",
      "264727bc4e7309a1", "05eb14078f349602">>,
    <<"10c6eec54f01b03f", "a3b6886a455885e4",
      "28b8d3aedb1ea258", "1c74dd6c3f43bfef">>,
    <<"13412d409ff86012", "ca98613ca79483fa",
      "f91cafdced21e53f", "17ea3f1ab8d11a4e">>,
    <<"31c174b68a60affc", "00d10b012fd847d9",
      "cf3eaa6df5df69c1", "5d1c57fab306f356">>,
    <<"944102c29bf0151a", "1799e7768836a0c6",
      "bcece8b3123f3fa0", "474e29c3b571b47c">>,
    <<"156292171bbefc95", "b0858ca338b62409",
      "1e202322fa93c8bb", "ca242c7c16434f9f">>,
    <<"b7b5caa54beeb9e1", "c8007f694f157345",
      "708e7bca70365b84", "ef50ca7f61e84539">>,
    <<"3c3914038e793d5b", "b2be5214fcb6ff19",
      "03ae4d9500c17bcc", "2fb8a5d892d13991">>,
    <<"5ac9c5f8c6c6fd64", "0c587b3454e61905",
      "6493d86c8d649282", "e01d24355df3b2c1">>,
    <<"545daeed4e9bf69d", "dfdd597e06b1ec2c",
      "11b7ebf6246b53c7", "fb7fece2d66f264e">>,
    <<"14daadbc42c616d1", "75781209cbcbf10f",
      "e6b374fc471c184c", "cfee763bc8ba6d60">>,
    <<"3b5802ba1e6db1da", "af88adab5fe29f60",
      "a4348ae0ceb5329d", "845eeb995c1d45fb">>,
    <<"cb413a33a5e3cd7e", "6ebd12c7695e6b94",
      "4e3bcfa522cd3589", "02b85feccb9e84e0">>,
    <<"acfc3be5c41a1e67", "0aa987c57494bb47",
      "03ba09576a36f0dd", "8d82f6698266b643">>,
    <<"1addd15ebeafef3b", "99dfdacd8b1136c8",
      "b41568e5f73cfdfb", "fd60a9eb0a6470a9">>,
    <<"636b3894c426fb51", "d760bdaa91151b18",
      "3c92f4ba4b04d244", "8b3a0f3afebaa7ba">>,
    <<"a24384db3dbccc26", "d102ea10d6065437",
      "3fc86bf2ec6e9676", "80e863a00f937658">>,
    <<"462019adf2b8f5ff", "29b61a4bf406dc96",
      "68203cfedea0092e", "1d9f151b0f4d3d4d">>,
    <<"b8a054a734f077fc", "2393a438f28f5dc2",
      "8f3a955f7c4e5755", "4aa08e862e736b08">>,
    <<"c5595bc6b9b29635", "0e3ebecc88435732",
      "05eb9c78d0b729dd", "0ac307d19b826052">>,
    <<"7abe24718ba72021", "fed47149d8520294",
      "ff698b50961ceda8", "3ba18623f6f6fb68">>,
    <<"c9100685157eba3b", "928ab0d7d449f3ef",
      "1b3a20591503c14c", "6ef558544fcb7482">>,
    <<"783fc5ca328bd52e", "deb1b2ba28274b36",
      "8916912cfad67628", "9fbff3ac9f27b15a">>,
    <<"8f632bc33ffb4f75", "a3a5428bdbd2278f",
      "8ebf2de905b6bdd8", "3a2e4eacb8da9c92">>,
    <<"2ef1e77d03ff6fac", "a334c4995b69de7b",
      "46c585ffa98de49a", "ba0c84c5f08eabbc">>,
    <<"941686019dbae3eb", "2c17fb74781ec206",
      "f2ce6e901d7c9562", "c11381ef8bea4f5e">>,
    <<"07530e9f24de3e46", "beb0615e8a6c8116",
      "ef0d867da227da27", "cddc59c86f9e404a">>,
    <<"2114f4f860d33e90", "c43ee730e1c7702a",
      "4bcada61a17302bd", "e2c9e445fe519d8a">>,
    <<"3a2eac97ffa238a2", "53e5568a801238c1",
      "b1fe2e90878f7de5", "f7b94d7c9f3a8aa1">>,
    <<"c69ec471a468b8ce", "6432e83f0579cfcb",
      "f46179069b0cdaef", "fe10742edad3ed1b">>,
    <<"834c900cdf170601", "d9d9d100b92374d9",
      "775e0b3e692204ad", "d8b6a138cfcd381a">>,
    <<"c9378634bbd2b486", "b6eb8cecbf2836c3",
      "439935e0fb319694", "cc4163b916e69927">>,
    <<"17412a8f4a85479d", "d80852594a52fdf5",
      "705872bfe4b4dd87", "1cbcfa4e74d5085c">>,
    <<"396795bfa47a970a", "03b09e0164cbec5e",
      "5f933ab2b56f45ba", "f4776e1f415fe469">>,
    <<"439a2a302c506672", "c883d75a1cd51f97",
      "62dec9c7737c3e62", "024fdea069e82dee">>,
    <<"7bb94562fbc5a1f1", "c7dcccdad37183e3",
      "8fd03537da999ba9", "59eb20247eba6788">>,
    <<"c42dfac4cd04e07f", "a95564911ca55f97",
      "69ebff4140eba808", "8bbb60bb2db88901">>,
    <<"9d0b658d2b7941ff", "e42b68e3eb96f884",
      "e2938315d3f10310", "adef785e317bcd59">>,
    <<"6e8c9e7dd51ac603", "a663ad79f685c9a2",
      "43a8f08b0314176c", "3a4e6c09c3eb151b">>,
    <<"d1a371d14e75bd12", "5859c441531b4a55",
      "a0ba9900829d7939", "86fcdbcefe29959b">>,
    <<"77b14fa13dc00dc8", "4a98b81299ee7354",
      "e4e8a96e91fb9213", "8736bdd84e6ac5dd">>,
    <<"26e1b39b3945368f", "54f3832edbe809e4",
      "2c024c35c899dc07", "c514642dc23cf309">>,
    <<"b466360475ccf1ab", "5c6237584463ce37",
      "3f6591995809cf24", "c4a0225aafc3c7c2">>,
    <<"fc214fc475eededd", "3c7bd09cfc67636c",
      "dc6c04e1c462c391", "858d27719c19c2cf">>,
    <<"69a906227c1db174", "3fa9dadc015eecd9",
      "b992a8587730fbc8", "a92d1d039ce68332">>,
    <<"5c206cc222079971", "bdae817851eb5edb",
      "48aca88717e0dea3", "79c0dffce1f27ff2">>,
    <<"d9d5508f057f9895", "3e0c66de5843cb2a",
      "35f9af8ffcc2490f", "deb2d5d6560c41c1">>,
    <<"417ea6d95e704d68", "c685ebdee8f6e90d",
      "06c453fc3a5b6bb4", "5cf672baff7518b6">>,
    <<"ab924b4a0627f08b", "b797af634ab40630",
      "56cf4cb72575616b", "bcfcfb03a57be07b">>,
    <<"39748c686e7171f8", "6a7a7bd6bdb17a7f",
      "64ffb9efb942cdd4", "910aa2b401a2dff0">>,
    <<"4a5919d49e0ee4aa", "429783a5fe7f6949",
      "d0d6b3e0a259fc20", "8d32982ae0781bde">>,
    <<"941a4738a323c35b", "f086be6d832d2806",
      "10fd99c556d854a7", "7695092e94332355">>,
    <<"1bb35a80b085aef9", "60f7af36094190dd",
      "440a9bdb116d8f19", "ac587b613dd06459">>,
    <<"333f9c0c02e5b31c", "c676681353be8ef4",
      "f7e20b41a30a5f7c", "3c6ae85bd81c2266">>,
    <<"e442c98b869ef781", "1d11c8cbdb4d63e0",
      "d7dac0d77b00667d", "e4566b3d9cae0e8c">>,
    <<"d1e64fa913d72292", "4ad820f0f433842e",
      "dc4d69e7a7a34d47", "3bf10d0939913615">>,
    <<"00a50c36943fb0c7", "211f34dfd95212c7",
      "dec9f8bb6213a401", "a184a239bcaf1380">>,
    <<"6b3cffae85c6f69d", "79c39bea60cb8a25",
      "b521075afc48fd21", "97efd8898f5518e0">>,
    <<"70feb22442a25253", "09ce2377a2980b13",
      "3f91080e362d0c86", "a13f35333488bd09">>,
    <<"7235ce1676db48de", "5fe76d10a5c60731",
      "76888f4e518a2cba", "45b40a99f0b40e4a">>,
    <<"0274201e122210d5", "ff2cb52bddfd9523",
      "02507057aadd441d", "22812f511695730a">>,
    <<"719ec03245a2e0ee", "23988fcf37b44168",
      "51b5f9b31342e90f", "d19454f8a069a233">>,
    <<"a4d9713356284ec7", "78a8f2f88bd5abc3",
      "7821b9929ec28dde", "44b044a12fe779e5">>,
    <<"7d8a676905280f38", "9b07f1a544399ab8",
      "f83965dc115560a6", "a37810f94ac519e1">>,
    <<"ae6b8a9818a4ca68", "9f185494d580c053",
      "400b239aa5052fc8", "6eb3629e3f2c3dc9">>,
    <<"b74d0f5dbfa414ae", "cf1b56621b3a9148",
      "f8adc4378eacb375", "25a0a6a9ce99300d">>,
    <<"d53610f08582a192", "f9587c0982f9e1ce",
      "e5200e860228ca16", "9f6ceac9b1f4f1e3">>,
    <<"175d3e3a1880764c", "6eba949ce969924a",
      "45144a96f579c042", "448b97f2a9aa56fc">>,
    <<"dbfae15014003543", "1ae90edeb3f3ef28",
      "9b41256eea6e7492", "ce6a6febff0feada">>,
    <<"aaac23fa7dcfc6af", "eafce8948e2f0d88",
      "81041112f818b0fc", "2804620a8019b7b6">>,
    <<"a2dec6a395ef74c8", "36ce823288e01135",
      "0af71e2f8961515d", "b0505cb286d43596">>,
    <<"69316bdf0cf130d9", "6afc2762768f8407",
      "34f4a5d088b2ef1b", "b805616ca714a291">>,
    <<"293988f5a7a62caa", "7cb537a94922e71d",
      "f0c60f8786e8228e", "610e373ecc30678e">>,
    <<"c2faee35ec189ed3", "b7d0cdc8d8679337",
      "5af6cd428077cb89", "f32042504e6b9344">>,
    <<"9b9b9126ac672232", "280e7c20a66645ab",
      "4497e80c6b524b35", "82ee76a98aa0900a">>,
    <<"70b4fdf38c78a082", "e7082e23bdfefe75",
      "c1ab3537f5115cff", "081823ad9a156b34">>
>>

\* hashlib.sha256(b).hexdigest(): the 64 hex digits, in groups of 16.
\* The values are the real digests of the strings the model hashes.
Sha256Hex(s) ==
    CASE s = StrEmpty ->
           <<"e3b0c44298fc1c14", "9afbf4c8996fb924",
             "27ae41e4649b934c", "a495991b7852b855">>
      [] s = StrIln ->
           <<"05b30dab25ae7e42", "b34abf1abd1072d9",
             "dd7181dba611ebf1", "c8a820831ca9ea33">>
      [] s = Prefix(StrDigits, PrefixLen) ->
           <<"84d89877f0d4041e", "fb6bf91a16f0248f",
             "2fd573e6af05c19f", "96bedb9f882f7882">>
      [] s = StrDigits ->
           <<"d407ad901895723f", "32d31e6515f5284b",
             "eb4c01e70e56720d", "65099da4771f3193">>
      [] Len(s) > Len(TestData) ->
           StressDigests[DecVal(SubSeq(s, Len(TestData) + 2, Len(s))) + 1]

\* hexdigest()[:16]
HexPrefix(h, n) == SubSeq(h, 1, n \div HashLen)

-----------------------------------------------------------------------------
(* Capability detection, ILNCapabilityDetector *)

\* _setup_rust_bindings / _setup_go_bindings: return at once while the
\* capability flag is still False, otherwise set argtypes and restype.
SetupBindings(flag) == flag

\* One "try: CDLL(...); setup; flag = True / except OSError: flag = False"
\* block of _detect_all_capabilities; the flag is False when setup runs.
Detect(loads) ==
    IF loads
    THEN [flag |-> TRUE, bound |-> SetupBindings(FALSE)]
    ELSE [flag |-> FALSE, bound |-> FALSE]

-----------------------------------------------------------------------------
(* The essences, ILNEssenceEngine *)

Returned(v) == [raised |-> FALSE, exc |-> "", value |-> v]
Raised(e) == [raised |-> TRUE, exc |-> e, value |-> [engine |-> "none"]]

NativeOutcomes == {"ok", "raise"}

\* The outcomes a native call can have; without the capability no call
\* is made and the choice is immaterial.
RustOutcomes == IF capabilities.rust THEN NativeOutcomes ELSE {"raise"}
GoOutcomes == IF capabilities.go THEN NativeOutcomes ELSE {"raise"}

\* Mutant: the native Rust call is attempted in every mode
RustBlockAnyMode(data, mode, native) ==
    IF ~capabilities.rust
    THEN "skipped"
    ELSE IF Encodable(data) /\ native = "ok" THEN "returned" ELSE "raised"

\* The try block of own_secure: "skipped" when its guard is false,
\* "returned" when the native result is returned, "raised" when any
\* statement of the block raises (data.encode('utf-8') included) and the
\* except clause falls through to the fallback.
\* native: what the calls into rust_lib do, were they made.
RustBlock(data, mode, native) ==
    IF ~(capabilities.rust /\ mode \in {"secure", "balanced"})
    THEN "skipped"
    ELSE IF Encodable(data) /\ native = "ok" THEN "returned" ELSE "raised"

\* The try block of chan_parallel, likewise
GoBlock(data, native) ==
    IF ~capabilities.go
    THEN "skipped"
    ELSE IF Encodable(data) /\ native = "ok" THEN "returned" ELSE "raised"

OwnSecureFallback(data) ==
    IF ~Encodable(data)
    THEN Raised("UnicodeEncodeError")
    ELSE Returned([secure_hash |-> HexPrefix(Sha256Hex(data), HashLen),
                   length |-> Len(data),
                   engine |-> "python_fallback"])

\* Mutant: the except clause names OSError only, so what the native call
\* raises leaves own_secure
OwnSecureNoCatch(data, mode, native) ==
    CASE RustBlock(data, mode, native) = "returned" ->
           Returned([engine |-> "rust_native"])
      [] RustBlock(data, mode, native) = "raised" ->
           Raised("Exception")
      [] OTHER -> OwnSecureFallback(data)

\* Mutant: outside the secure and balanced modes the fallback hashes only
\* the first characters of the data
OwnSecureByMode(data, mode, native) ==
    IF RustBlock(data, mode, native) = "returned"
    THEN Returned([engine |-> "rust_native"])
    ELSE IF mode \in {"secure", "balanced"}
         THEN OwnSecureFallback(data)
         ELSE OwnSecureFallback(Prefix(data, PrefixLen))

OwnSecure(data, mode, native) ==
    IF RustBlock(data, mode, native) = "returned"
    THEN Returned([engine |-> "rust_native"])
    ELSE OwnSecureFallback(data)

\* Mutant: every worker reports the id of the first one
ProcessChunkShared(data, chunk_id) ==
    <<"python_worker", 0, "processed", Prefix(data, PrefixLen)>>

\* process_chunk(chunk_id)
ProcessChunk(data, chunk_id) ==
    <<"python_worker", chunk_id, "processed", Prefix(data, PrefixLen)>>

\* The orders in which the futures 0..workers-1 of the pool can complete:
\* order[k] is the chunk id of the k-th future as_completed yields.
CompletionOrders(workers) ==
    IF workers <= 0 THEN {<< >>}
    ELSE {o \in [1..workers -> 0..(workers - 1)] :
            \A i, j \in 1..workers : o[i] = o[j] => i = j}

\* Mutant: the futures are submitted for range(1, workers)
ChanParallelFallbackShort(data, workers, order) ==
    IF workers <= 0
    THEN Raised("ValueError")
    ELSE Returned([results |-> [k \in 1..(workers - 1) |->
                                   ProcessChunk(data, order[k])],
                   worker_count |-> workers,
                   goroutines |-> workers,
                   engine |-> "python_asyncio_fallback"])

\* ThreadPoolExecutor(max_workers=workers) raises ValueError for workers <= 0
ChanParallelFallback(data, workers, order) ==
    IF workers <= 0
    THEN Raised("ValueError")
    ELSE Returned([results |-> [k \in 1..workers |->
                                   ProcessChunk(data, order[k])],
                   worker_count |-> workers,
                   goroutines |-> workers,
                   engine |-> "python_asyncio_fallback"])

ChanParallel(data, workers, native, order) ==
    IF GoBlock(data, native) = "returned"
    THEN Returned([engine |-> "go_native"])
    ELSE ChanParallelFallback(data, workers, order)

\* round(len(data) * 0.314159, 3), in thousandths
ReactivityScore(data) == (Len(data) * 314159 + 500) \div 1000

EventReactive(data, event_type) ==
    Returned([event_type |-> event_type,
              reactivity_score |-> ReactivityScore(data),
              data_length |-> Len(data),
              engine |-> "python_event_simulation"])

GetSystemMetrics ==
    [capabilities |-> capabilities,
     requests_processed |-> performance_metrics.requests_processed]

-----------------------------------------------------------------------------
(* Exact arithmetic for the running average and the stress-test ratios *)

RECURSIVE Gcd(_, _)
Gcd(a, b) == IF b = 0 THEN a ELSE Gcd(b, a % b)

\* p / q for q # 0, in lowest terms with a positive denominator
Ratio(p, q) ==
    LET n == IF q < 0 THEN 0 - p ELSE p
        d == IF q < 0 THEN 0 - q ELSE q
        a == IF n < 0 THEN 0 - n ELSE n
        g == Gcd(a, d)
    IN  [num |-> n \div g, den |-> d \div g]

Zero == [num |-> 0, den |-> 1]

\* (average * (count - 1) + total_time) / count
NewAverage(average, count, total_time) ==
    Ratio(average.num * (count - 1) + total_time * average.den,
          average.den * count)

-----------------------------------------------------------------------------
(* Requests *)

valid_modes == {"secure", "fast", "reactive", "balanced", "benchmark"}

\* Mutant: the validator returns v without raising
ValidateModeLax(v) == TRUE

\* ILNProcessingRequest.validate_mode
ValidateMode(v) == v \in valid_modes

ModeInputs == valid_modes \cup {"turbo"}
WorkerInputs == (0 - 1)..MaxWorkers

\* The requests the whole service is driven with (Spec)
Requests ==
    [data : {StrIln}, processing_mode : {"balanced", "secure", "turbo"},
     workers : {0, 1}]

\* The requests POST /process-advanced is examined with (HttpSpec)
HttpRequests ==
    [data : {StrIln, StrDigits, StrBad}, processing_mode : ModeInputs,
     workers : {0, 1}]

\* Mutant: every mode hands the request's workers to the parallel stage
BranchRequestWorkers(req) ==
    [mode |-> req.processing_mode, workers |-> req.workers,
     event_type |-> "event", capabilities_used |-> <<"python">>]

\* The branch of process_advanced taken for a validated mode: the mode given
\* to own_secure, the workers given to chan_parallel, the event type given to
\* event_reactive, and capabilities_used.
Branch(req) ==
    CASE req.processing_mode = "secure" ->
           [mode |-> "secure", workers |-> MinimalWorkers,
            event_type |-> "secure_event",
            capabilities_used |-> <<"rust", "python">>]
      [] req.processing_mode = "fast" ->
           [mode |-> "fast", workers |-> req.workers,
            event_type |-> "fast_event",
            capabilities_used |-> <<"go", "python">>]
      [] req.processing_mode = "reactive" ->
           [mode |-> "reactive", workers |-> MinimalWorkers,
            event_type |-> "reactive_event",
            capabilities_used |-> <<"javascript", "python">>]
      [] req.processing_mode = "benchmark" ->
           [mode |-> "benchmark", workers |-> req.workers,
            event_type |-> "benchmark_event",
            capabilities_used |-> <<"rust", "go", "javascript", "python">>]
      [] OTHER ->
           [mode |-> "balanced", workers |-> req.workers,
            event_type |-> "balanced_event",
            capabilities_used |-> <<"rust", "go", "javascript", "python">>]

\* One engine call of a handler: the method, its second argument, and the
\* engine that answered ("none" when the call raised)
Call(fn, arg, result) == [fn |-> fn, arg |-> arg, engine |-> result.value.engine]

\* request.data[:100] + "..." if len(request.data) > 100 else request.data
Echo(data) ==
    IF Len(data) > EchoLen
    THEN Prefix(data, EchoLen) \o <<".", ".", ".">>
    ELSE data

\* Pydantic's validation error (422), HTTPException(status_code=400)
ClientError(code) == [code |-> code, status |-> "client_error"]
\* An exception leaving the handler: the framework answers 500
ServerError(exc) == [code |-> 500, status |-> "server_error", exc |-> exc]

-----------------------------------------------------------------------------
(* Initial state: the module has been imported, iln_engine constructed.    *)
(* The lifespan warm-up calls own_secure / chan_parallel once and prints   *)
(* the engine name; it changes no state.                                   *)

\* The state with `count` requests counted so far
Start(count) ==
    /\ \E rust_loads \in BOOLEAN, go_loads \in BOOLEAN :
          /\ capabilities = [rust |-> Detect(rust_loads).flag,
                             go |-> Detect(go_loads).flag]
          /\ bindings = [rust |-> Detect(rust_loads).bound,
                         go |-> Detect(go_loads).bound]
    /\ performance_metrics =
          [requests_processed |-> count, average_response_time |-> Zero]
    /\ recorded = 0
    /\ request = [endpoint |-> "none"]
    /\ response = [code |-> 0, status |-> "none"]
    /\ invoked = << >>
    /\ pre = performance_metrics
    /\ call = [fn |-> "none"]
    /\ memo = [fn |-> "none"]
    /\ ws_pc = "closed"
    /\ ws_connected = FALSE
    /\ ws_msg = [requests_processed |-> 0 - 1]

Init == Start(0)

ws_vars == <<ws_pc, ws_connected, ws_msg>>
engine_vars == <<capabilities, bindings, performance_metrics, recorded>>
http_vars == <<request, response, invoked, pre>>
call_vars == <<call, memo>>

-----------------------------------------------------------------------------
(* POST /process-advanced *)

\* Mutant: the handler catches the exception and answers a success
ProcessFailedCaught(counted, calls, exc) ==
    [metrics |-> counted, calls |-> calls,
     response |-> [code |-> 200, status |-> "success", error |-> exc]]

\* An engine call raised: process_advanced has no except clause, the
\* exception leaves it after the counter was incremented and before the
\* average is updated.
ProcessFailed(counted, calls, exc) ==
    [metrics |-> counted, calls |-> calls, response |-> ServerError(exc)]

\* What the body of process_advanced does with a validated request: the
\* counters it leaves, the engine calls it makes and its response.
\* natR, natG: outcome of the native Rust / Go call; order: completion order
\* of the pool's futures; total_time: time.time() - start_time.
ProcessBody(req, natR, natG, order, total_time) ==
    LET b == Branch(req)
        count == performance_metrics.requests_processed + 1
        counted == [performance_metrics EXCEPT !.requests_processed = count]
        sec == OwnSecure(req.data, b.mode, natR)
        par == ChanParallel(req.data, b.workers, natG, order)
        rea == EventReactive(req.data, b.event_type)
        c1 == Call("own_secure", b.mode, sec)
        c2 == Call("chan_parallel", b.workers, par)
        c3 == Call("event_reactive", b.event_type, rea)
        averaged ==
            [counted EXCEPT !.average_response_time =
                NewAverage(performance_metrics.average_response_time,
                           count, total_time)]
    IN  IF sec.raised
        THEN ProcessFailed(counted, <<c1>>, sec.exc)
        ELSE IF par.raised
        THEN ProcessFailed(counted, <<c1, c2>>, par.exc)
        ELSE [metrics |-> averaged, calls |-> <<c1, c2, c3>>,
              response |->
                 [code |-> 200,
                  status |-> "success",
                  original_data |-> Echo(req.data),
                  security_result |-> sec.value,
                  parallel_result |-> par.value,
                  reactive_result |-> rea.value,
                  processing_mode |-> req.processing_mode,
                  total_processing_time |-> total_time,
                  system_metrics |->
                     [capabilities |-> capabilities,
                      requests_processed |-> count],
                  capabilities_used |-> b.capabilities_used]]

ProcessAdvanced(req) ==
    /\ request' = [endpoint |-> "process-advanced", data |-> req.data,
                   processing_mode |-> req.processing_mode,
                   workers |-> req.workers]
    /\ pre' = performance_metrics
    /\ IF ~ValidateMode(req.processing_mode)
       THEN /\ response' = ClientError(422)
            /\ invoked' = << >>
            /\ UNCHANGED <<performance_metrics, recorded>>
       ELSE /\ performance_metrics.requests_processed < MaxRequests
            /\ \E natR \in RustOutcomes, natG \in GoOutcomes,
                  order \in CompletionOrders(Branch(req).workers),
                  total_time \in 0..MaxElapsed :
                  LET out == ProcessBody(req, natR, natG, order, total_time)
                  IN  /\ performance_metrics' = out.metrics
                      /\ invoked' = out.calls
                      /\ response' = out.response
                      \* total_time is computed once the three calls
                      \* have returned
                      /\ recorded' = IF out.response.code = 200
                                     THEN recorded + total_time
                                     ELSE recorded
    /\ UNCHANGED <<capabilities, bindings, call_vars, ws_vars>>

-----------------------------------------------------------------------------
(* GET /metrics, /capabilities, /health *)

\* Mutant: /metrics counts itself as a processed request
GetMetricsCounted ==
    /\ request' = [endpoint |-> "metrics"]
    /\ pre' = performance_metrics
    /\ invoked' = << >>
    /\ performance_metrics.requests_processed < MaxRequests
    /\ performance_metrics' =
          [performance_metrics EXCEPT !.requests_processed = @ + 1]
    /\ response' = [code |-> 200, status |-> "ok", body |-> GetSystemMetrics]
    /\ UNCHANGED <<capabilities, bindings, recorded, call_vars, ws_vars>>

GetMetrics ==
    /\ request' = [endpoint |-> "metrics"]
    /\ pre' = performance_metrics
    /\ invoked' = << >>
    /\ response' = [code |-> 200, status |-> "ok", body |-> GetSystemMetrics]
    /\ UNCHANGED <<engine_vars, call_vars, ws_vars>>

GetCapabilities ==
    /\ request' = [endpoint |-> "capabilities"]
    /\ pre' = performance_metrics
    /\ invoked' = << >>
    /\ response' = [code |-> 200, status |-> "ok",
                    capabilities |-> capabilities]
    /\ UNCHANGED <<engine_vars, call_vars, ws_vars>>

\* Mutant: the status follows the outcome of the last request
HealthCheckByLastResponse ==
    /\ request' = [endpoint |-> "health"]
    /\ pre' = performance_metrics
    /\ invoked' = << >>
    /\ response' = [code |-> 200,
                    status |-> IF response.code = 500 THEN "degraded"
                               ELSE "healthy",
                    capabilities |-> capabilities,
                    performance |-> performance_metrics,
                    system_metrics |-> GetSystemMetrics,
                    docker_optimized |-> TRUE]
    /\ UNCHANGED <<engine_vars, call_vars, ws_vars>>

HealthCheck ==
    /\ request' = [endpoint |-> "health"]
    /\ pre' = performance_metrics
    /\ invoked' = << >>
    /\ response' = [code |-> 200,
                    status |-> "healthy",
                    capabilities |-> capabilities,
                    performance |-> performance_metrics,
                    system_metrics |-> GetSystemMetrics,
                    docker_optimized |-> TRUE]
    /\ UNCHANGED <<engine_vars, call_vars, ws_vars>>

-----------------------------------------------------------------------------
(* GET /stress-test/{iterations} *)

\* The iteration counts the service is driven with
IterationInputs ==
    {0 - 1, 0, 1, MaxIterations + 1, MaxIterations + 2}

\* Mutant: the upper-bound check is off by one
TooManyOffByOne(iterations) == iterations > MaxIterations + 1

\* if iterations > 100: raise HTTPException(status_code=400, ...)
TooMany(iterations) == iterations > MaxIterations

\* The outcomes of the native calls of the iterations whose results are
\* kept in sample_results; those of later iterations reach no output.
StressOutcomes(iterations) ==
    [1..Min(iterations, SampleSize) -> RustOutcomes \X GoOutcomes]

\* The pool's completion order is not visible in what stress_test keeps
\* (the engine name), so the futures complete in submission order here.
SubmissionOrder(workers) == [k \in 1..workers |-> k - 1]

\* The body of the for loop, for i = iteration - 1: its three engine calls
\* and the entry appended to results
StressIteration(iteration, nat) ==
    LET d == StressItem(iteration - 1)
        security == OwnSecure(d, "balanced", nat[1])
        parallel == ChanParallel(d, StressWorkers, nat[2],
                                 SubmissionOrder(StressWorkers))
        reactive == EventReactive(d, "process")
    IN  [calls |-> <<Call("own_secure", "balanced", security),
                     Call("chan_parallel", StressWorkers, parallel),
                     Call("event_reactive", "process", reactive)>>,
         entry |-> [iteration |-> iteration,
                    security_engine |-> security.value.engine,
                    parallel_engine |-> parallel.value.engine,
                    reactive_engine |-> reactive.value.engine]]

\* The handler after its upper-bound check:
\* [response |-> the response, calls |-> the engine calls made]
StressBody(iterations, nat, total_time) ==
    LET its == SubSeq([i \in 1..iterations |->
                          StressIteration(i, IF i \in DOMAIN nat THEN nat[i]
                                             ELSE <<"raise", "raise">>)],
                      1, iterations)
        results == [i \in 1..Len(its) |-> its[i].entry]
        calls == [k \in 1..(3 * Len(its)) |->
                     its[((k - 1) \div 3) + 1].calls[((k - 1) % 3) + 1]]
    IN  IF iterations = 0 \/ total_time = 0
        THEN \* total_time / iterations, then iterations / total_time
             [response |-> ServerError("ZeroDivisionError"),
              calls |-> calls]
        ELSE [response |->
                 [code |-> 200,
                  status |-> "completed",
                  iterations |-> iterations,
                  total_time |-> total_time,
                  average_time_per_iteration |->
                      Ratio(total_time, iterations),
                  requests_per_second |-> Ratio(iterations, total_time),
                  capabilities |-> capabilities,
                  final_metrics |-> GetSystemMetrics,
                  sample_results |-> Prefix(results, SampleSize)],
              calls |-> calls]

StressTest(iterations) ==
    /\ request' = [endpoint |-> "stress-test", iterations |-> iterations]
    /\ pre' = performance_metrics
    /\ IF TooMany(iterations)
       THEN /\ response' = ClientError(400)
            /\ invoked' = << >>
       ELSE \E nat \in StressOutcomes(iterations),
               total_time \in 0..MaxElapsed :
               LET out == StressBody(iterations, nat, total_time)
               IN  /\ response' = out.response
                   /\ invoked' = out.calls
    /\ UNCHANGED <<engine_vars, call_vars, ws_vars>>

-----------------------------------------------------------------------------
(* WS /ws/monitoring *)

\* await websocket.accept()
WsAccept ==
    /\ ws_pc = "closed"
    /\ ws_pc' = "loop"
    /\ ws_connected' = TRUE
    /\ UNCHANGED <<ws_msg, engine_vars, http_vars, call_vars>>

\* Mutant: a failed send is swallowed and the loop goes on
WsSendSwallowing ==
    /\ ws_pc = "loop"
    /\ ws_pc' = "sleep"
    /\ IF ws_connected
       THEN ws_msg' = GetSystemMetrics
       ELSE UNCHANGED ws_msg
    /\ UNCHANGED <<ws_connected, engine_vars, http_vars, call_vars>>

\* metrics = get_system_metrics(); await websocket.send_text(...):
\* delivered while the client is connected; on a closed connection the send
\* raises, the loop is left and the handler returns.
WsSend ==
    /\ ws_pc = "loop"
    /\ IF ws_connected
       THEN /\ ws_msg' = GetSystemMetrics
            /\ ws_pc' = "sleep"
       ELSE /\ ws_pc' = "closed"
            /\ UNCHANGED ws_msg
    /\ UNCHANGED <<ws_connected, engine_vars, http_vars, call_vars>>

\* await asyncio.sleep(1) returns
WsWake ==
    /\ ws_pc = "sleep"
    /\ ws_pc' = "loop"
    /\ UNCHANGED <<ws_connected, ws_msg, engine_vars, http_vars, call_vars>>

\* The client goes away
WsDisconnect ==
    /\ ws_pc # "closed"
    /\ ws_connected
    /\ ws_connected' = FALSE
    /\ UNCHANGED <<ws_pc, ws_msg, engine_vars, http_vars, call_vars>>

-----------------------------------------------------------------------------
(* The engine methods called directly, outside any handler *)

CallOwnSecure(data, mode, native) ==
    LET result == OwnSecure(data, mode, native)
    IN  /\ call' = [fn |-> "own_secure", data |-> data, arg |-> mode,
                    native |-> RustBlock(data, mode, native),
                    result |-> result]
        /\ \/ UNCHANGED memo
           \/ /\ ~result.raised
              /\ result.value.engine = "python_fallback"
              /\ memo' = [fn |-> "own_secure", data |-> data,
                          native |-> RustBlock(data, mode, native),
                          secure_hash |-> result.value.secure_hash,
                          length |-> result.value.length]
        /\ UNCHANGED <<engine_vars, http_vars, ws_vars>>

CallChanParallel(data, workers, native, order) ==
    /\ call' = [fn |-> "chan_parallel", data |-> data, arg |-> workers,
                native |-> GoBlock(data, native),
                result |-> ChanParallel(data, workers, native, order)]
    /\ UNCHANGED <<memo, engine_vars, http_vars, ws_vars>>

CallEventReactive(data, event_type) ==
    /\ call' = [fn |-> "event_reactive", data |-> data, arg |-> event_type,
                native |-> "skipped",
                result |-> EventReactive(data, event_type)]
    /\ UNCHANGED <<memo, engine_vars, http_vars, ws_vars>>

-----------------------------------------------------------------------------
(* Specifications *)

\* The whole service: every endpoint and the monitoring socket
Next ==
    \/ \E req \in Requests : ProcessAdvanced(req)
    \/ GetMetrics
    \/ GetCapabilities
    \/ HealthCheck
    \/ \E iterations \in IterationInputs : StressTest(iterations)
    \/ WsAccept
    \/ WsSend
    \/ WsWake
    \/ WsDisconnect

Spec == Init /\ [][Next]_vars

\* The event loop runs every ready task and every timer that is due
FairSpec == Spec /\ WF_vars(WsSend) /\ WF_vars(WsWake)

\* The HTTP endpoints alone, over a wider set of requests
HttpNext ==
    \/ \E req \in HttpRequests : ProcessAdvanced(req)
    \/ GetMetrics
    \/ GetCapabilities
    \/ HealthCheck
    \/ \E iterations \in IterationInputs : StressTest(iterations)

HttpSpec == Init /\ [][HttpNext]_vars

\* The engine in any state the service can leave it in
EngineInit == \E count \in 0..MaxRequests : Start(count)

EngineNext ==
    \/ \E data \in DataSet, mode \in ModeInputs, native \in RustOutcomes :
          CallOwnSecure(data, mode, native)
    \/ \E data \in DataSet, workers \in WorkerInputs, native \in GoOutcomes :
          \E order \in CompletionOrders(workers) :
             CallChanParallel(data, workers, native, order)
    \/ \E data \in DataSet, event_type \in {"process", "fast_event"} :
          CallEventReactive(data, event_type)

EngineSpec == EngineInit /\ [][EngineNext]_vars

-----------------------------------------------------------------------------
(* Properties *)

IsProcess == request.endpoint = "process-advanced"
IsStress == request.endpoint = "stress-test"

\* C1: a POST /process-advanced whose processing_mode is none of secure,
\* fast, reactive, balanced, benchmark is rejected with a client error
\* before any processing: no engine method is invoked, and
\* requests_processed and average_response_time stay as they were.
C1_InvalidModeRejected ==
    (IsProcess /\ request.processing_mode \notin
        {"secure", "fast", "reactive", "balanced", "benchmark"})
    => /\ response.status = "client_error"
       /\ response.code \in 400..499
       /\ invoked = << >>
       /\ performance_metrics = pre

\* an unrecognised mode rejected after requests have been counted
C1_Witness ==
    /\ IsProcess
    /\ request.processing_mode = "turbo"
    /\ response.code = 422
    /\ pre.requests_processed > 0
    /\ pre.average_response_time # Zero

\* C2: GET /stress-test/0 answers a zero-iteration success (status
\* "completed", iterations 0, empty sample_results) and does not fail with
\* a division by zero.
C2_ZeroIterationsCompleted ==
    (IsStress /\ request.iterations = 0)
    => /\ response.status = "completed"
       /\ response.iterations = 0
       /\ response.sample_results = << >>

\* C3: for every iterations >= 101, GET /stress-test/iterations answers
\* HTTP 400 before running any iteration: no engine method is invoked and
\* no counter changes.
C3_TooManyRejected ==
    (IsStress /\ request.iterations >= 101)
    => /\ response.code = 400
       /\ response.status = "client_error"
       /\ invoked = << >>
       /\ performance_metrics = pre

\* /stress-test/101 rejected after requests have been counted
C3_Witness ==
    /\ IsStress
    /\ request.iterations = 101
    /\ response.code = 400
    /\ pre.requests_processed > 0

IsFallbackOf(fn, engine) ==
    /\ call.fn = fn
    /\ ~call.result.raised
    /\ call.result.value.engine = engine

\* C4: for every workers in 1..16 and every data, the thread-pool fallback
\* of chan_parallel returns exactly `workers` results and worker_count =
\* workers.
C4_FallbackResultCount ==
    (/\ IsFallbackOf("chan_parallel", "python_asyncio_fallback")
     /\ call.arg \in 1..16)
    => /\ Len(call.result.value.results) = call.arg
       /\ call.result.value.worker_count = call.arg

\* the fallback run with the largest pool of the model, after the native
\* call raised
C4_Witness ==
    /\ IsFallbackOf("chan_parallel", "python_asyncio_fallback")
    /\ call.arg = MaxWorkers
    /\ call.native = "raised"
    /\ Len(call.data) > PrefixLen

\* The native path gave no result: the capability is unavailable, or the
\* native call was made and raised
NoNativeResult(capability) ==
    ~capability \/ call.native = "raised"

\* C5 as stated: whenever the Rust capability is unavailable or the native
\* call raises, own_secure returns the result of the in-process fallback;
\* likewise chan_parallel returns the thread-pool fallback result.
C5_FallbackAlwaysReturns ==
    /\ (call.fn = "own_secure" /\ NoNativeResult(capabilities.rust))
       => IsFallbackOf("own_secure", "python_fallback")
    /\ (call.fn = "chan_parallel" /\ NoNativeResult(capabilities.go))
       => IsFallbackOf("chan_parallel", "python_asyncio_fallback")

\* C5 as amended: the same, for data that UTF-8 can encode (own_secure) and
\* for workers >= 1 (chan_parallel); outside these the fallback itself
\* raises.
C5_FallbackReturns ==
    /\ (/\ call.fn = "own_secure"
        /\ NoNativeResult(capabilities.rust)
        /\ Encodable(call.data))
       => IsFallbackOf("own_secure", "python_fallback")
    /\ (/\ call.fn = "chan_parallel"
        /\ NoNativeResult(capabilities.go)
        /\ call.arg >= 1)
       => IsFallbackOf("chan_parallel", "python_asyncio_fallback")

\* the native Rust call was made, raised, and the fallback answered
C5_Witness ==
    /\ capabilities.rust
    /\ call.fn = "own_secure"
    /\ call.native = "raised"
    /\ IsFallbackOf("own_secure", "python_fallback")

Counter == performance_metrics.requests_processed

\* C6: across any sequence of endpoint calls the requests_processed that
\* GET /metrics reports never decreases: it changes only by +1, on a
\* validated POST /process-advanced, and /metrics (like /health,
\* /capabilities, /stress-test and the monitoring WebSocket) reports it
\* without changing it.
C6_CounterMonotonic ==
    [][/\ Counter' >= Counter
       /\ Counter' # Counter
          => /\ Counter' = Counter + 1
             /\ request'.endpoint = "process-advanced"
             /\ request'.processing_mode \in
                   {"secure", "fast", "reactive", "balanced", "benchmark"}
       /\ request'.endpoint \in {"metrics", "health", "capabilities",
                                 "stress-test"}
          => Counter' = Counter
       /\ ws_vars' # ws_vars => Counter' = Counter
       /\ request'.endpoint = "metrics"
          => response'.body.requests_processed = Counter'
       /\ (request.endpoint = "metrics" /\ request'.endpoint = "metrics")
          => response'.body.requests_processed
                >= response.body.requests_processed]_vars

\* /metrics reports the counter after every request the model allows has
\* been counted
C6_Witness ==
    /\ request.endpoint = "metrics"
    /\ response.body.requests_processed = MaxRequests

\* C7: in every reachable state, whatever capabilities were detected and
\* whatever requests succeeded or failed before, an answered GET /health
\* reports status "healthy".
C7_AlwaysHealthy ==
    request.endpoint = "health" => response.status = "healthy"

\* /health answered with Go detected, after every request the model
\* allows has been counted
C7_Witness ==
    /\ request.endpoint = "health"
    /\ response.status = "healthy"
    /\ response.capabilities.go
    /\ response.performance.requests_processed = MaxRequests

\* C8: the fallback of own_secure is a function of the data alone: a call
\* returns the same secure_hash (the first 16 hex digits of the SHA-256
\* digest) and the same length as any earlier call with that data,
\* whatever the mode and the engine state.
C8_FallbackDeterministic ==
    (/\ IsFallbackOf("own_secure", "python_fallback")
     /\ memo.fn = "own_secure"
     /\ memo.data = call.data)
    => /\ call.result.value.secure_hash = memo.secure_hash
       /\ call.result.value.length = memo.length
       /\ call.result.value.secure_hash = <<Sha256Hex(call.data)[1]>>

\* two fallback calls with the same data in different modes: the earlier
\* one in a mode that skips the native call, the later one after a native
\* call that raised
C8_Witness ==
    /\ IsFallbackOf("own_secure", "python_fallback")
    /\ memo.fn = "own_secure"
    /\ memo.data = call.data
    /\ capabilities.rust
    /\ memo.native = "skipped"
    /\ call.native = "raised"
    /\ Len(call.data) > PrefixLen

\* C9: once a client has connected to /ws/monitoring the handler sends a
\* metrics snapshot, sleeps, and sends again, for as long as the client
\* stays connected; after the client disconnects the loop ends, the
\* handler terminates, and no further message is sent.
C9_MonitoringLoop ==
    /\ [][/\ (ws_pc = "loop" /\ ws_pc' = "sleep")
             => (ws_connected /\ ws_msg' = GetSystemMetrics)
          /\ ws_msg' # ws_msg => (ws_pc = "loop" /\ ws_connected)
          /\ (ws_pc = "sleep" /\ ws_pc' # ws_pc) => ws_pc' = "loop"
          /\ (ws_pc = "loop" /\ ws_pc' = "closed") => ~ws_connected
          /\ (ws_pc # "closed" /\ ~ws_connected) => ~ws_connected']_vars
    /\ (ws_pc = "sleep") ~> (ws_pc = "loop")
    /\ (ws_pc = "loop" /\ ws_connected)
          ~> (ws_pc = "sleep" \/ ~ws_connected)
    /\ (ws_pc # "closed" /\ ~ws_connected) ~> (ws_pc = "closed")

\* the handler has terminated after its client got a snapshot taken after
\* a request was counted, and disconnected
C9_Witness ==
    /\ ws_pc = "closed"
    /\ ~ws_connected
    /\ ws_msg.requests_processed > 0

\* C10: when a fallback raises during POST /process-advanced (the thread
\* pool given workers <= 0, for one), the handler does not catch it: the
\* request ends as a server error, no later engine method runs, and no
\* success result is returned.
C10_FallbackErrorPropagates ==
    IsProcess =>
       \A k \in DOMAIN invoked :
          invoked[k].engine = "none"
          => /\ response.code = 500
             /\ response.status # "success"
             /\ k = Len(invoked)

\* the thread-pool fallback raised for workers = 0
C10_Witness ==
    /\ IsProcess
    /\ request.workers = 0
    /\ Len(invoked) = 2
    /\ invoked[2].fn = "chan_parallel"
    /\ invoked[2].arg = 0
    /\ invoked[2].engine = "none"
    /\ response.code = 500

\* C11: for every n with 1 <= n <= 100, GET /stress-test/n runs exactly n
\* iterations one after another, each invoking own_secure, then
\* chan_parallel with 4 workers, then event_reactive, and reports
\* iterations = n with sample_results holding the first min(n, 5)
\* iterations, numbered 1..min(n, 5) in order.
C11_StressRunsAndReports ==
    (IsStress /\ request.iterations \in 1..100)
    => /\ Len(invoked) = 3 * request.iterations
       /\ \A i \in 1..request.iterations :
             /\ invoked[3 * i - 2].fn = "own_secure"
             /\ invoked[3 * i - 1].fn = "chan_parallel"
             /\ invoked[3 * i - 1].arg = 4
             /\ invoked[3 * i].fn = "event_reactive"
       /\ response.status = "completed"
       /\ response.iterations = request.iterations
       /\ Len(response.sample_results) = Min(request.iterations, 5)
       /\ \A k \in 1..Len(response.sample_results) :
             response.sample_results[k].iteration = k

ValidMode ==
    request.processing_mode \in
       {"secure", "fast", "reactive", "balanced", "benchmark"}

C13_AverageIsMean ==
    performance_metrics.average_response_time.num
          * performance_metrics.requests_processed
       = recorded * performance_metrics.average_response_time.den

\* C14: in the parallel fallback of chan_parallel, for every order in
\* which the pool's worker threads complete, the returned results contain
\* each worker id 0..workers-1 exactly once, as
\* "python_worker_<i>_processed_<first 10 characters of data>"; only the
\* order of the entries may depend on the interleaving, and no state
\* outside the call is modified by the workers.
C14_EachWorkerOnce ==
    /\ [](IsFallbackOf("chan_parallel", "python_asyncio_fallback")
          => /\ Len(call.result.value.results) = call.arg
             /\ \A i \in 0..(call.arg - 1) :
                   Cardinality(
                      {k \in DOMAIN call.result.value.results :
                          call.result.value.results[k] =
                             <<"python_worker", i, "processed",
                               SubSeq(call.data, 1,
                                      Min(10, Len(call.data)))>>}) = 1)
    /\ [][call'.fn = "chan_parallel"
          => UNCHANGED <<capabilities, bindings, performance_metrics,
                         memo>>]_vars

\* the workers of the largest pool completed last-submitted first, on data
\* longer than the prefix they report
C14_Witness ==
    /\ IsFallbackOf("chan_parallel", "python_asyncio_fallback")
    /\ call.arg = MaxWorkers
    /\ Len(call.data) > 10
    /\ call.result.value.results[1][2] = MaxWorkers - 1
    /\ call.result.value.results[MaxWorkers][2] = 0

\* C15: when the Rust (respectively Go) shared library loads, the ctypes
\* signatures of its functions have been configured by
\* _setup_rust_bindings (respectively _setup_go_bindings) by the time the
\* capability flag becomes true: the flag is never true with the bindings
\* left unconfigured.
C15_BindingsConfigured ==
    /\ capabilities.rust => bindings.rust
    /\ capabilities.go => bindings.go

C17_NegativeCompleted ==
    (IsStress /\ request.iterations < 0)
    => /\ response.code # 400
       /\ invoked = << >>
       /\ response.status = "completed"
       /\ response.iterations = request.iterations
       /\ response.sample_results = << >>

=============================================================================
